---- MODULE Spec2Model ----
(***************************************************************************)
(* libnvidia-hide: an LD_PRELOAD library that hides the NVIDIA DRM nodes   *)
(* and /dev/nvidia* from a process.  The model follows                     *)
(* crates/libnvidia-hide/src/lib.rs: the load-time initializer (policy and *)
(* discovery), the classification predicates and the hooked entry points.  *)
(*                                                                         *)
(* Text is a TLA+ string; TLC evaluates Len, \o and SubSeq on strings, so  *)
(* prefix, substring, split and trim are computed character by character.  *)
(***************************************************************************)
EXTENDS Integers, Sequences, FiniteSets, TLC

VARIABLES
    env,            \* what the process sees outside itself: exe link, environment, files, sysfs
    ACTIVE,         \* static ACTIVE: AtomicBool
    NVIDIA_NODES,   \* static NVIDIA_NODES: OnceLock<Vec<String>>
    NVIDIA_BDFS,    \* static NVIDIA_BDFS: OnceLock<Vec<String>>
    inits,          \* how many times nh_init has run
    first,          \* the values the first run of nh_init left (history variable)
    REAL,           \* the three function-local statics REAL: OnceLock<fn>, by hook name
    errno,          \* the C library's errno of each thread
    dirp,           \* the directory stream the caller iterates, or NoDir
    last,           \* the most recent hooked call of the sequential caller and its outcome
    pc,             \* racing callers: the position of each thread inside a hook
    tcall           \* racing callers: the call each thread is making

vars == <<env, ACTIVE, NVIDIA_NODES, NVIDIA_BDFS, inits, first, REAL, errno, dirp, last, pc, tcall>>

(***************************************************************************)
(* Bounds of the model.                                                    *)
(***************************************************************************)
MaxInits == 2       \* runs of nh_init (the second one is the simulated re-initialisation)
MaxEntries == 2     \* length of the generated directory listings
NThreads == 2       \* threads racing on the lazily resolved function pointers

None == [none |-> TRUE]     \* Option::None, Err(_), an unset OnceLock
Some(v) == [some |-> v]

(***************************************************************************)
(* Text primitives (std::str).                                             *)
(***************************************************************************)
CharAt(s, i) == SubSeq(s, i, i)

StartsWith(s, p) == Len(s) >= Len(p) /\ SubSeq(s, 1, Len(p)) = p

Contains(s, n) == \E i \in 0..(Len(s) - Len(n)) : SubSeq(s, i + 1, i + Len(n)) = n

\* str::find(c): Some(byte offset of the first occurrence, from 0) or None
Find(s, c) ==
    IF Contains(s, c)
    THEN Some(CHOOSE i \in 0..(Len(s) - Len(c)) :
                /\ SubSeq(s, i + 1, i + Len(c)) = c
                /\ \A j \in 0..(i - 1) : SubSeq(s, j + 1, j + Len(c)) # c)
    ELSE None

\* str::split(c) for a one-character separator: every piece, empty ones included
RECURSIVE Split(_, _)
Split(s, c) ==
    LET f == Find(s, c) IN
    IF f = None THEN <<s>>
    ELSE <<SubSeq(s, 1, f.some)>> \o Split(SubSeq(s, f.some + 2, Len(s)), c)

\* str::lines(): split at "\n", a final empty piece is not a line, a trailing "\r" is dropped
StripCR(s) == IF Len(s) > 0 /\ CharAt(s, Len(s)) = "\r" THEN SubSeq(s, 1, Len(s) - 1) ELSE s
Lines(s) ==
    LET ps == Split(s, "\n")
        qs == IF ps[Len(ps)] = "" THEN SubSeq(ps, 1, Len(ps) - 1) ELSE ps
    IN [i \in 1..Len(qs) |-> StripCR(qs[i])]

IsTrimChar(c) == c \in {" ", "\t", "\n", "\r"}

RECURSIVE TrimStart(_)
TrimStart(s) ==
    IF Len(s) > 0 /\ IsTrimChar(CharAt(s, 1)) THEN TrimStart(SubSeq(s, 2, Len(s))) ELSE s

RECURSIVE TrimEnd(_)
TrimEnd(s) ==
    IF Len(s) > 0 /\ IsTrimChar(CharAt(s, Len(s))) THEN TrimEnd(SubSeq(s, 1, Len(s) - 1)) ELSE s

trim(s) == TrimEnd(TrimStart(s))

\* path.rsplit('/').next(): the text after the last '/', the whole text without one
RECURSIVE basename(_)
basename(path) ==
    LET f == Find(path, "/") IN
    IF f = None THEN path ELSE basename(SubSeq(path, f.some + 2, Len(path)))

IsAsciiDigit(c) == c \in {"0", "1", "2", "3", "4", "5", "6", "7", "8", "9"}

(***************************************************************************)
(* libc fnmatch(pattern, string, 0): '*' matches any run of characters     *)
(* ('/' included, flags are 0), '?' any one character, anything else       *)
(* itself.  The patterns of the model hold no '[' and no '\'.              *)
(***************************************************************************)
RECURSIVE fnmatch(_, _)
fnmatch(p, s) ==
    IF p = "" THEN s = ""
    ELSE IF CharAt(p, 1) = "*"
         THEN fnmatch(SubSeq(p, 2, Len(p)), s)
              \/ (s # "" /\ fnmatch(p, SubSeq(s, 2, Len(s))))
         ELSE /\ s # ""
              /\ (CharAt(p, 1) = "?" \/ CharAt(p, 1) = CharAt(s, 1))
              /\ fnmatch(SubSeq(p, 2, Len(p)), SubSeq(s, 2, Len(s)))

\* CString::new(s).ok(): None when the text holds a NUL byte (written "\f" here)
NUL == "\f"
CStringOk(s) == ~Contains(s, NUL)

glob_match(pat, exe_full, exe_base) ==
    LET target == IF Contains(pat, "/") THEN exe_full ELSE exe_base IN
    IF ~CStringOk(pat) \/ ~CStringOk(target) THEN FALSE
    ELSE fnmatch(pat, target)

(***************************************************************************)
(* The environment: env.exe is read_link("/proc/self/exe"), env.vars the   *)
(* environment variables, env.files the readable text files by path.       *)
(***************************************************************************)
getenv(name) == IF name \in DOMAIN env.vars THEN Some(env.vars[name]) ELSE None

read_to_string(path) == IF path \in DOMAIN env.files THEN Some(env.files[path]) ELSE None

read_self_exe == env.exe

xdg_path(leaf) ==
    IF getenv("XDG_CONFIG_HOME") # None
    THEN getenv("XDG_CONFIG_HOME").some \o "/nvidia-hide/" \o leaf
    ELSE IF getenv("HOME") # None
         THEN getenv("HOME").some \o "/.config/nvidia-hide/" \o leaf
         ELSE "/nonexistent/" \o leaf

env_list_has_match(envval, exe_full, exe_base) ==
    IF envval = None THEN FALSE
    ELSE IF envval.some = "" THEN FALSE
    ELSE LET toks == Split(envval.some, ":") IN
         \E i \in 1..Len(toks) :
            /\ trim(toks[i]) # ""
            /\ glob_match(trim(toks[i]), exe_full, exe_base)

\* the usable lines of a list file: trimmed, not empty, not starting with '#'
UsableLine(line) == trim(line) # "" /\ ~StartsWith(trim(line), "#")

\* returns <<matched, had_entries>>; the loop returns at the first matching line
file_list_has_match(path, exe_full, exe_base) ==
    LET data == read_to_string(path) IN
    IF data = None THEN <<FALSE, FALSE>>
    ELSE LET ls == Lines(data.some)
             hit(i) == UsableLine(ls[i]) /\ glob_match(trim(ls[i]), exe_full, exe_base)
         IN IF \E i \in 1..Len(ls) : hit(i)
            THEN <<TRUE, TRUE>>
            ELSE <<FALSE, \E i \in 1..Len(ls) : UsableLine(ls[i])>>

has_allow_of(env_allow, allow_had_entries) ==
    (env_allow # None /\ env_allow.some # "") \/ allow_had_entries

\* a policy in which an allow match shields the process from the deny list
PolicyDecisionAllowWins(active, has_allow, allow_match, deny_match) ==
    LET a1 == IF has_allow /\ ~allow_match THEN FALSE ELSE active
    IN IF deny_match /\ ~allow_match THEN FALSE ELSE a1

\* the two stores of apply_policy_from_exe, applied to the value ACTIVE holds
PolicyDecision(active, has_allow, allow_match, deny_match) ==
    LET a1 == IF has_allow /\ ~allow_match THEN FALSE ELSE active
    IN IF deny_match THEN FALSE ELSE a1

\* apply_policy_from_exe: the value of ACTIVE it leaves, given the value it finds
apply_policy_from_exe(active) ==
    IF read_self_exe = None THEN active
    ELSE LET exe_full == read_self_exe.some
             exe_base == basename(exe_full)
             env_allow == getenv("LIBNVIDIAHIDE_ALLOWLIST")
             env_deny == getenv("LIBNVIDIAHIDE_DENYLIST")
             allow_match_env == env_list_has_match(env_allow, exe_full, exe_base)
             deny_match_env == env_list_has_match(env_deny, exe_full, exe_base)
             af == file_list_has_match(xdg_path("allowlist"), exe_full, exe_base)
             df == file_list_has_match(xdg_path("denylist"), exe_full, exe_base)
             has_allow == has_allow_of(env_allow, af[2])
             allow_match == allow_match_env \/ af[1]
             deny_match == deny_match_env \/ df[1]
         IN PolicyDecision(active, has_allow, allow_match, deny_match)

(***************************************************************************)
(* Device discovery.  env.drm is read_dir("/sys/class/drm"): None when it  *)
(* fails, else the entries in directory order, each with its name, the     *)
(* text of <name>/device/vendor (None when unreadable) and the target of   *)
(* the <name>/device link (None when it is no link).                       *)
(***************************************************************************)
HexDigits == <<"0", "1", "2", "3", "4", "5", "6", "7", "8", "9",
               "a", "b", "c", "d", "e", "f">>
UpperHex == <<"0", "1", "2", "3", "4", "5", "6", "7", "8", "9",
              "A", "B", "C", "D", "E", "F">>

IsHexDigit(c) == \E i \in 1..16 : HexDigits[i] = c \/ UpperHex[i] = c
LowerHex(c) == HexDigits[CHOOSE i \in 1..16 : HexDigits[i] = c \/ UpperHex[i] = c]

\* A u32 is written as its hexadecimal numeral, lower case, without leading zeros
\* ("0" for zero): two texts parse to the same number exactly when they have the
\* same numeral, and the number exceeds u32::MAX exactly when the numeral has more
\* than U32_HEX_DIGITS digits.
RECURSIVE StripZeros(_)
StripZeros(s) ==
    IF Len(s) > 1 /\ CharAt(s, 1) = "0" THEN StripZeros(SubSeq(s, 2, Len(s))) ELSE s

RECURSIVE LowerAll(_)
LowerAll(s) ==
    IF s = "" THEN "" ELSE LowerHex(CharAt(s, 1)) \o LowerAll(SubSeq(s, 2, Len(s)))

U32_HEX_DIGITS == 8

\* u32::from_str_radix(s, 16).ok(): a lone sign, an empty text, a character that is
\* no hex digit and a value above u32::MAX are errors; one leading '+' is accepted
from_str_radix_16(s) ==
    LET digits == IF StartsWith(s, "+") THEN SubSeq(s, 2, Len(s)) ELSE s IN
    IF digits = "" THEN None
    ELSE IF \E i \in 1..Len(digits) : ~IsHexDigit(CharAt(digits, i)) THEN None
    ELSE IF Len(StripZeros(digits)) > U32_HEX_DIGITS THEN None
    ELSE Some(StripZeros(LowerAll(digits)))

\* read_u32_hex_file, given the result of reading the file
read_u32_hex_file(content) ==
    IF content = None THEN None
    ELSE LET t == trim(content.some)
             d == IF StartsWith(t, "0x") THEN SubSeq(t, 3, Len(t)) ELSE t
         IN from_str_radix_16(d)

NVIDIA_VENDOR == "10de"      \* 0x10de

sysfs_drm_node_vendor_is_nvidia(ent) ==
    LET v == read_u32_hex_file(ent.vendor) IN
    IF v = None THEN FALSE ELSE v.some = NVIDIA_VENDOR

\* Path components ignore trailing separators
RECURSIVE TrimSlashes(_)
TrimSlashes(t) ==
    IF Len(t) > 1 /\ CharAt(t, Len(t)) = "/" THEN TrimSlashes(SubSeq(t, 1, Len(t) - 1)) ELSE t

\* Path::file_name of a link target: the last component, None when it is ".." or absent
file_name(target) ==
    LET t == TrimSlashes(target)
        b == basename(t)
    IN IF b = "" \/ b = ".." THEN None ELSE Some(b)

BDF_MIN_LEN == 7

sysfs_drm_node_bdf(ent) ==
    IF ent.device = None THEN None
    ELSE LET f == file_name(ent.device.some) IN
         IF f = None THEN None
         ELSE IF Len(f.some) >= BDF_MIN_LEN /\ Contains(f.some, ":") THEN f ELSE None

is_drm_devnode_name(name) ==
    IF StartsWith(name, "renderD") THEN TRUE
    ELSE IF StartsWith(name, "card")
         THEN \A i \in 5..Len(name) : IsAsciiDigit(CharAt(name, i))
         ELSE FALSE

SeqContains(v, x) == \E i \in 1..Len(v) : v[i] = x

\* the loop of discover_nvidia over the first n entries: [nodes, bdfs]
RECURSIVE DiscoverLoop(_, _)
DiscoverLoop(ents, n) ==
    IF n = 0 THEN [nodes |-> <<>>, bdfs |-> <<>>]
    ELSE LET acc == DiscoverLoop(ents, n - 1)
             ent == ents[n]
         IN IF ~is_drm_devnode_name(ent.name) THEN acc
            ELSE IF ~sysfs_drm_node_vendor_is_nvidia(ent) THEN acc
            ELSE LET bdf == sysfs_drm_node_bdf(ent)
                     nb == IF bdf # None /\ ~SeqContains(acc.bdfs, bdf.some)
                           THEN Append(acc.bdfs, bdf.some) ELSE acc.bdfs
                 IN [nodes |-> Append(acc.nodes, ent.name), bdfs |-> nb]

Discovered ==
    IF env.drm = None THEN [nodes |-> <<>>, bdfs |-> <<>>]
    ELSE DiscoverLoop(env.drm.some, Len(env.drm.some))

\* a cell that keeps a growing vector: a later set appends to what is stored
OnceLockSetAppends(cell, v) == IF cell = None THEN Some(v) ELSE Some(cell.some \o v)

\* OnceLock::set(v).ok(): the value is stored only into an empty cell
OnceLockSet(cell, v) == IF cell = None THEN Some(v) ELSE cell

nvidia_nodes == IF NVIDIA_NODES = None THEN <<>> ELSE NVIDIA_NODES.some
nvidia_bdfs == IF NVIDIA_BDFS = None THEN <<>> ELSE NVIDIA_BDFS.some

(***************************************************************************)
(* Classification rules.                                                   *)
(***************************************************************************)
\* the prefix rule applied only to the device numbers discovery found nodes for
starts_with_nvidia_dev_discovered(path) ==
    StartsWith(path, "/dev/nvidia") /\ Len(nvidia_nodes) > 0

starts_with_nvidia_dev(path) == StartsWith(path, "/dev/nvidia")

\* blocks every .../config path once any BDF is known
is_blocked_pci_config_any(path) == Contains(path, "/config") /\ Len(nvidia_bdfs) > 0

is_blocked_pci_config(path) ==
    IF ~Contains(path, "/config") THEN FALSE
    ELSE \E i \in 1..Len(nvidia_bdfs) :
            Contains(path, "/" \o nvidia_bdfs[i] \o "/config")

\* the by-path rule without its directory test: an address anywhere in the path
is_nvidia_dri_path_anywhere(path) ==
    \/ \E i \in 1..Len(nvidia_nodes) : path = "/dev/dri/" \o nvidia_nodes[i]
    \/ \E i \in 1..Len(nvidia_bdfs) : Contains(path, nvidia_bdfs[i])

is_nvidia_dri_path(path) ==
    \/ \E i \in 1..Len(nvidia_nodes) : path = "/dev/dri/" \o nvidia_nodes[i]
    \/ /\ StartsWith(path, "/dev/dri/by-path/")
       /\ \E i \in 1..Len(nvidia_bdfs) : Contains(path, nvidia_bdfs[i])

\* the rules without the ACTIVE gate
should_block_open_ungated(path) ==
    \/ starts_with_nvidia_dev(path)
    \/ is_nvidia_dri_path(path)
    \/ StartsWith(path, "/usr/share/vulkan/icd.d/nvidia")
    \/ StartsWith(path, "/usr/share/vulkan/implicit_layer.d/nvidia")
    \/ Contains(path, "nvidia-drm_gbm.so")
    \/ Contains(path, "libGLX_nvidia.so")
    \/ StartsWith(path, "/usr/lib/libnvidia-")
    \/ is_blocked_pci_config(path)

should_block_open(path) ==
    IF ~ACTIVE THEN FALSE
    ELSE IF starts_with_nvidia_dev(path) THEN TRUE
    ELSE IF is_nvidia_dri_path(path) THEN TRUE
    ELSE IF StartsWith(path, "/usr/share/vulkan/icd.d/nvidia") THEN TRUE
    ELSE IF StartsWith(path, "/usr/share/vulkan/implicit_layer.d/nvidia") THEN TRUE
    ELSE IF Contains(path, "nvidia-drm_gbm.so") THEN TRUE
    ELSE IF Contains(path, "libGLX_nvidia.so") THEN TRUE
    ELSE IF StartsWith(path, "/usr/lib/libnvidia-") THEN TRUE
    ELSE IF is_blocked_pci_config(path) THEN TRUE
    ELSE FALSE

should_block_dlopen(filename) ==
    IF ~ACTIVE THEN FALSE
    ELSE \/ Contains(filename, "libGLX_nvidia")
         \/ Contains(filename, "nvidia-drm_gbm.so")
         \/ Contains(filename, "libnvidia-")
         \/ Contains(filename, "/usr/lib/libnvidia-")

\* the short form of a BDF: the text after its first ':', None without a ':'
ShortBdf(bdf) ==
    LET colon == Find(bdf, ":") IN
    IF colon = None THEN None ELSE Some(SubSeq(bdf, colon.some + 2, Len(bdf)))

\* hides on the full address only
BdfHidesFullOnly(bdf, name) == Contains(name, bdf)

BdfHides(bdf, name) ==
    \/ Contains(name, bdf)
    \/ /\ ShortBdf(bdf) # None
       /\ ShortBdf(bdf).some # ""
       /\ Contains(name, ShortBdf(bdf).some)

\* the directory argument is not read by the code
is_hidden_entry(dir, name) ==
    IF ~ACTIVE THEN FALSE
    ELSE IF StartsWith(name, "nvidia") THEN TRUE
    ELSE IF \E i \in 1..Len(nvidia_nodes) : nvidia_nodes[i] = name THEN TRUE
    ELSE \E i \in 1..Len(nvidia_bdfs) : BdfHides(nvidia_bdfs[i], name)

(***************************************************************************)
(* The environments the model starts from.                                 *)
(***************************************************************************)
\* a function from the names (or paths) whose value is present to that value
Present(pairs) ==
    LET ps == {q \in pairs : q[2] # None} IN
    [k \in {q[1] : q \in ps} |-> (CHOOSE q \in ps : q[1] = k)[2].some]

Entry(name, vendor, device) == [name |-> name, vendor |-> vendor, device |-> device]

\* a hybrid laptop: an Intel iGPU (card0, renderD128) and an NVIDIA dGPU (card1, renderD129)
DrmHybrid ==
    << Entry("version", None, None),
       Entry("card0", Some("0x8086\n"), Some("../../../0000:00:02.0")),
       Entry("card1", Some("0x10de\n"), Some("../../../0000:01:00.0")),
       Entry("card1-eDP-1", None, Some("../../card1")),
       Entry("renderD128", Some("0x8086\n"), Some("../../../0000:00:02.0")),
       Entry("renderD129", Some("0x10de\n"), Some("../../../0000:01:00.0")) >>

\* the NVIDIA device is card0 alone
DrmCard0 ==
    << Entry("card0", Some("0x10de\n"), Some("../../../0000:01:00.0")),
       Entry("card1", Some("0x8086\n"), Some("../../../0000:00:02.0")),
       Entry("renderD128", Some("0x8086\n"), Some("../../../0000:00:02.0")) >>

\* attribute files and links of unusual shape
DrmOdd ==
    << Entry("card2", Some("0010DE"), None),
       Entry("card3", Some("0x10de\n"), Some("../../../1:2.3")),
       Entry("card4", Some("0x0x10de\n"), Some("../../../0000:04:00.0")),
       Entry("card5", Some("0x10de\n"), Some("../../../platform-gpu")),
       Entry("renderD", Some("+10de\n"), Some("../../../01:00.0/")),
       Entry("card6", Some("0x1000010de\n"), Some("../../../0000:06:00.0")),
       Entry("controlD64", Some("0x10de\n"), Some("../../../0000:01:00.0")),
       Entry("renderDx", Some("0x10de\n"), Some("../../../0000:07:00.0")) >>

DrmTrees == {None, Some(DrmHybrid), Some(DrmCard0), Some(DrmOdd)}

\* env.syms[h]: the addresses dlsym(RTLD_NEXT, h) may return, one for each object
\* after this library in the lookup order that defines h
HookNames == {"dlopen", "readdir", "readdir64"}
OneLibc == [h \in HookNames |-> {<<h, "libc.so.6">>}]
TwoLibs == [h \in HookNames |-> {<<h, "libc.so.6">>, <<h, "libdl.so.2">>}]

MakeEnv(exe, allow, deny, xdg, home, files, drm, syms) ==
    [ exe |-> exe,
      vars |-> Present({ <<"LIBNVIDIAHIDE_ALLOWLIST", allow>>,
                         <<"LIBNVIDIAHIDE_DENYLIST", deny>>,
                         <<"XDG_CONFIG_HOME", xdg>>,
                         <<"HOME", home>> }),
      files |-> files,
      drm |-> drm,
      syms |-> syms ]

ExeLinks == {None, Some("/usr/bin/vlc"), Some("/opt/vlc/mpv")}
AllowValues == {None, Some(""), Some("vlc"), Some("mpv: vlc "), Some("/usr/bin/*"), Some(":")}
DenyValues == {None, Some("vlc"), Some("m?v"), Some("/opt/*")}
ConfigHomes == {<<None, None>>, <<None, Some("/h")>>, <<Some("/x"), Some("/h")>>}
AllowFiles == {None, Some("# only a comment\n\n"), Some("vlc\n"),
               Some("#c\r\n mpv \r\nv" \o NUL \o "c")}
DenyFiles == {None, Some("  # none\n*\n")}

\* the list files live under $HOME/.config; with XDG_CONFIG_HOME set they are not looked at
ConfigFiles(af, df) ==
    Present({ <<"/h/.config/nvidia-hide/allowlist", af>>,
              <<"/h/.config/nvidia-hide/denylist", df>> })

PolicyEnvs ==
    { MakeEnv(exe, allow, deny, ch[1], ch[2], ConfigFiles(af, df), Some(DrmHybrid), OneLibc) :
        exe \in ExeLinks, allow \in AllowValues, deny \in DenyValues,
        ch \in ConfigHomes, af \in AllowFiles, df \in DenyFiles }

\* the processes the hooks are exercised in: hiding active over each device tree,
\* hiding switched off by the deny list, and a process whose exe link is unreadable
HookEnvs ==
    { MakeEnv(Some("/usr/bin/vlc"), None, None, None, Some("/h"), ConfigFiles(None, None),
              drm, OneLibc) : drm \in {None, Some(DrmHybrid), Some(DrmCard0)} }
    \cup { MakeEnv(Some("/usr/bin/vlc"), None, Some("vlc"), None, Some("/h"),
                   ConfigFiles(None, None), Some(DrmHybrid), OneLibc),
           MakeEnv(None, None, Some("vlc"), None, Some("/h"),
                   ConfigFiles(None, None), Some(DrmCard0), OneLibc) }

\* the processes whose threads race: hiding active and hiding off, with two objects
\* after this library defining each hooked symbol
RaceEnvs ==
    { MakeEnv(Some("/usr/bin/vlc"), None, deny, None, Some("/h"), ConfigFiles(None, None),
              Some(DrmHybrid), TwoLibs) : deny \in {None, Some("vlc")} }

\* the processes the classification rules are exercised in: every device tree
RuleEnvs ==
    { MakeEnv(Some("/usr/bin/vlc"), None, None, None, Some("/h"), ConfigFiles(None, None),
              drm, OneLibc) : drm \in DrmTrees }
    \cup { MakeEnv(Some("/usr/bin/vlc"), None, Some("vlc"), None, Some("/h"),
                   ConfigFiles(None, None), Some(DrmHybrid), OneLibc) }

(***************************************************************************)
(* Initial state: the statics as the program image holds them.             *)
(***************************************************************************)
Hooks == HookNames
Threads == 1..NThreads
NoDir == [open |-> FALSE]
NoCall == [hook |-> "none"]

InitFrom(envs) ==
    /\ env \in envs
    /\ ACTIVE = TRUE
    /\ NVIDIA_NODES = None
    /\ NVIDIA_BDFS = None
    /\ inits = 0
    /\ first = None
    /\ REAL = [h \in Hooks |-> None]
    /\ errno = [t \in Threads |-> 0]
    /\ dirp = NoDir
    /\ last = NoCall
    /\ pc = [t \in Threads |-> "idle"]
    /\ tcall = [t \in Threads |-> NoCall]

(***************************************************************************)
(* nh_init: the constructor.  ACTIVE is stored true, the policy may store  *)
(* false, and discovery runs only when ACTIVE is still true.               *)
(***************************************************************************)
nh_init_active == apply_policy_from_exe(TRUE)

NhInit ==
    /\ inits < MaxInits
    /\ last = NoCall
    /\ \A t \in Threads : pc[t] = "idle"
    /\ ACTIVE' = nh_init_active
    /\ IF nh_init_active
       THEN /\ NVIDIA_NODES' = OnceLockSet(NVIDIA_NODES, Discovered.nodes)
            /\ NVIDIA_BDFS' = OnceLockSet(NVIDIA_BDFS, Discovered.bdfs)
       ELSE UNCHANGED <<NVIDIA_NODES, NVIDIA_BDFS>>
    /\ inits' = inits + 1
    /\ first' = IF first = None
                THEN Some([active |-> ACTIVE', nodes |-> NVIDIA_NODES', bdfs |-> NVIDIA_BDFS'])
                ELSE first
    /\ UNCHANGED <<env, REAL, errno, dirp, last, pc, tcall>>

(***************************************************************************)
(* The hooked entry points, called by a sequential caller (thread 1).      *)
(* `last` holds the call that has just returned and what it did: whether   *)
(* it was denied, the calls it forwarded (fwd), its return value, and the  *)
(* value it left in errno.  The caller takes the result (Return) before    *)
(* its next call, and it closes the directory it iterates before it calls  *)
(* anything else; hooks are reached only after the constructor has run.    *)
(***************************************************************************)
ENOENT == 2
O_CREAT == 64               \* 0o100
O_TMPFILE == 4259840        \* 0o20200000: __O_TMPFILE | O_DIRECTORY
AT_FDCWD == -100

RECURSIVE BitAnd(_, _)
BitAnd(a, b) ==
    IF a = 0 \/ b = 0 THEN 0
    ELSE (a % 2) * (b % 2) + 2 * BitAnd(a \div 2, b \div 2)

\* set_errno(e) on the denial path; a forwarded call leaves in errno what the callee left
SetErrno(t, res) == IF res.errno = None THEN errno ELSE [errno EXCEPT ![t] = res.errno.some]

\* c_path(p).unwrap_or_default(): the empty text for a null pointer
c_path(pathname) == IF pathname = None THEN "" ELSE pathname.some

\* a denial that forgets set_errno
DeniedSilently(sentinel) ==
    [denied |-> TRUE, fwd |-> <<>>, ret |-> sentinel, errno |-> None]

\* the outcome of a denied call: errno = ENOENT and the failure value, nothing forwarded
Denied(sentinel) ==
    [denied |-> TRUE, fwd |-> <<>>, ret |-> sentinel, errno |-> Some(ENOENT)]

\* the outcome of a forwarded call: `out` is what the callee returns and leaves in errno;
\* fwd records the call made and the value it returned
Forwarded(callee, out) ==
    [denied |-> FALSE, fwd |-> <<callee @@ [result |-> out.ret]>>,
     ret |-> out.ret, errno |-> out.errno]

sys_openat(dirfd, pathname, flags, mode) ==
    [fn |-> "SYS_openat", dirfd |-> dirfd, pathname |-> pathname, flags |-> flags, mode |-> mode]

sys_openat2(dirfd, pathname, how, size) ==
    [fn |-> "SYS_openat2", dirfd |-> dirfd, pathname |-> pathname, how |-> how, size |-> size]

\* the condition under which open and openat read their variadic argument
ReadsMode(flags) == BitAnd(flags, O_CREAT) # 0 \/ BitAnd(flags, O_TMPFILE) = O_TMPFILE

\* let mut mode = 0; if ... { mode = args.arg::<mode_t>() }: `slot` is what va_arg yields
ModeArg(flags, slot) == IF ReadsMode(flags) THEN slot ELSE 0

openat(dirfd, pathname, flags, slot, out) ==
    IF should_block_open(c_path(pathname)) THEN Denied(-1)
    ELSE Forwarded(sys_openat(dirfd, pathname, flags, ModeArg(flags, slot)), out)

open(pathname, flags, slot, out) ==
    IF should_block_open(c_path(pathname)) THEN Denied(-1)
    ELSE Forwarded(sys_openat(AT_FDCWD, pathname, flags, ModeArg(flags, slot)), out)

\* open64 calls open(pathname, flags, args): the one variadic argument open receives is
\* the va_list object itself, so what open's va_arg yields as a mode_t is not the
\* caller's mode but an indeterminate word (given here as `word`)
open64(pathname, flags, word, out) == open(pathname, flags, word, out)

\* __open_2 and __open64_2
open_2(pathname, flags, out) ==
    IF should_block_open(c_path(pathname)) THEN Denied(-1)
    ELSE Forwarded(sys_openat(AT_FDCWD, pathname, flags, 0), out)

\* __openat_2 and __openat64_2
openat_2(dirfd, pathname, flags, out) ==
    IF should_block_open(c_path(pathname)) THEN Denied(-1)
    ELSE Forwarded(sys_openat(dirfd, pathname, flags, 0), out)

openat2(dirfd, pathname, how, size, out) ==
    IF should_block_open(c_path(pathname)) THEN Denied(-1)
    ELSE Forwarded(sys_openat2(dirfd, pathname, how, size), out)

\* --- what the caller passes and what the kernel answers ---
CallPaths ==
    { "/dev/nvidia0", "/dev/dri/card0", "/dev/dri/card1",
      "/dev/dri/by-path/pci-0000:01:00.0-card",
      "/sys/bus/pci/devices/0000:01:00.0/config",
      "/sys/bus/pci/devices/0000:02:00.0/config",
      "/usr/lib/libnvidia-ml.so.1", "/opt/lib/libGLX_nvidia.so.0", "/tmp/x" }
PathPtrs == {None} \cup {Some(q) : q \in CallPaths}

\* O_RDONLY, O_WRONLY|O_CREAT, O_RDWR|O_TMPFILE, O_DIRECTORY (one of O_TMPFILE's two bits)
OpenFlags == {0, 65, 4259842, 65536}
Modes == {420, 384}         \* 0o644, 0o600
\* a caller gives a mode whenever the flags ask for one, and may leave it out otherwise
CallerModes(flags) == IF ReadsMode(flags) THEN {Some(m) : m \in Modes} ELSE {None, Some(420)}
\* what va_arg yields in open and openat: the caller's mode (read only when present)
Slot(mode) == IF mode = None THEN 0 ELSE mode.some
\* the words va_arg may yield when the variadic slot does not hold the mode
Words == {420, 4095}
DirFds == {AT_FDCWD, 5}
OpenHows == {[flags |-> 0, mode |-> 0, resolve |-> 0], [flags |-> 65, mode |-> 420, resolve |-> 4]}
\* a descriptor, or -1 with errno = ENOENT (no such file)
SysOutcomes == {[ret |-> 3, errno |-> None], [ret |-> -1, errno |-> Some(ENOENT)]}

Idle == /\ inits >= 1
        /\ last = NoCall
        /\ \A t \in Threads : pc[t] = "idle"

OpenReturns(call, res) ==
    /\ last' = call @@ [res |-> res]
    /\ errno' = SetErrno(1, res)
    /\ UNCHANGED <<env, ACTIVE, NVIDIA_NODES, NVIDIA_BDFS, inits, first, REAL, dirp, pc, tcall>>

Open ==
    /\ Idle /\ dirp = NoDir
    /\ \E pathname \in PathPtrs, flags \in OpenFlags, out \in SysOutcomes :
        \E mode \in CallerModes(flags) :
            OpenReturns([hook |-> "open", pathname |-> pathname, flags |-> flags, mode |-> mode],
                        open(pathname, flags, Slot(mode), out))

Open64 ==
    /\ Idle /\ dirp = NoDir
    /\ \E pathname \in PathPtrs, flags \in OpenFlags, out \in SysOutcomes :
        \E mode \in CallerModes(flags), word \in Words :
            OpenReturns([hook |-> "open64", pathname |-> pathname, flags |-> flags, mode |-> mode],
                        open64(pathname, flags, word, out))

Openat ==
    /\ Idle /\ dirp = NoDir
    /\ \E dirfd \in DirFds, pathname \in PathPtrs, flags \in OpenFlags, out \in SysOutcomes :
        \E mode \in CallerModes(flags) :
            OpenReturns([hook |-> "openat", dirfd |-> dirfd, pathname |-> pathname,
                         flags |-> flags, mode |-> mode],
                        openat(dirfd, pathname, flags, Slot(mode), out))

Open_2 ==
    /\ Idle /\ dirp = NoDir
    /\ \E pathname \in PathPtrs, flags \in OpenFlags, out \in SysOutcomes :
        OpenReturns([hook |-> "__open_2", pathname |-> pathname, flags |-> flags],
                    open_2(pathname, flags, out))

Open64_2 ==
    /\ Idle /\ dirp = NoDir
    /\ \E pathname \in PathPtrs, flags \in OpenFlags, out \in SysOutcomes :
        OpenReturns([hook |-> "__open64_2", pathname |-> pathname, flags |-> flags],
                    open_2(pathname, flags, out))

Openat_2 ==
    /\ Idle /\ dirp = NoDir
    /\ \E dirfd \in DirFds, pathname \in PathPtrs, flags \in OpenFlags, out \in SysOutcomes :
        OpenReturns([hook |-> "__openat_2", dirfd |-> dirfd, pathname |-> pathname, flags |-> flags],
                    openat_2(dirfd, pathname, flags, out))

Openat64_2 ==
    /\ Idle /\ dirp = NoDir
    /\ \E dirfd \in DirFds, pathname \in PathPtrs, flags \in OpenFlags, out \in SysOutcomes :
        OpenReturns([hook |-> "__openat64_2", dirfd |-> dirfd, pathname |-> pathname, flags |-> flags],
                    openat_2(dirfd, pathname, flags, out))

Openat2 ==
    /\ Idle /\ dirp = NoDir
    /\ \E dirfd \in DirFds, pathname \in PathPtrs, how \in OpenHows, out \in SysOutcomes :
        OpenReturns([hook |-> "openat2", dirfd |-> dirfd, pathname |-> pathname,
                     how |-> how, size |-> 24],
                    openat2(dirfd, pathname, how, 24, out))

\* the caller takes the result of the call
Return ==
    /\ last # NoCall
    /\ last' = NoCall
    /\ UNCHANGED <<env, ACTIVE, NVIDIA_NODES, NVIDIA_BDFS, inits, first, REAL, errno, dirp, pc, tcall>>

(***************************************************************************)
(* The lazily resolved real implementations: real_dlopen, real_readdir and *)
(* real_readdir64 each keep a function-local REAL: OnceLock<fn>.  A cell   *)
(* is None (empty), [running |-> t] while thread t runs the initializer,   *)
(* or Some(pointer).  OnceLock::get_or_init lets one thread run the        *)
(* initializer; a thread that finds the cell running waits.                *)
(***************************************************************************)
\* dlsym(RTLD_NEXT, name): the address of a definition of the symbol after this library
SymAddrs(h) == env.syms[h]

\* a cache without mutual exclusion: the cell stays empty while a thread resolves
OnceBeginUnclaimed(cell, t) == cell

\* a thread that finds the cell empty claims it
OnceBegin(cell, t) == [running |-> t]

\* the claiming thread stores the initializer's value
OnceComplete(cell, v) == Some(v)

IsResolved(cell) == cell # None /\ "some" \in DOMAIN cell

\* get_or_init by a thread that is not interrupted: the cell afterwards
get_or_init(cell, t, sym) ==
    IF IsResolved(cell) THEN cell ELSE OnceComplete(OnceBegin(cell, t), sym)

(***************************************************************************)
(* dlopen                                                                  *)
(***************************************************************************)
\* `real` is the cell of real_dlopen after get_or_init; it is read only when forwarding
dlopen(filename, flags, real, out) ==
    IF filename = None
    THEN Forwarded([fn |-> real.some, filename |-> filename, flags |-> flags], out)
    ELSE IF should_block_dlopen(filename.some) THEN Denied(0)
    ELSE Forwarded([fn |-> real.some, filename |-> filename, flags |-> flags], out)

\* whether this call of dlopen reaches real_dlopen()
DlopenResolves(filename) == filename = None \/ ~should_block_dlopen(filename.some)

LibNames == {"libGLX_nvidia.so.0", "libnvidia-ml.so.1", "/usr/lib/libGL.so.1", "libvulkan.so.1"}
LibPtrs == {None} \cup {Some(n) : n \in LibNames}
\* a null handle (the real dlopen failed) or a handle
DlOutcomes == {[ret |-> 0, errno |-> None], [ret |-> 7, errno |-> None]}

Dlopen ==
    /\ Idle /\ dirp = NoDir
    /\ \E filename \in LibPtrs, sym \in SymAddrs("dlopen"), out \in DlOutcomes :
        LET real == IF DlopenResolves(filename)
                    THEN get_or_init(REAL["dlopen"], 1, sym) ELSE REAL["dlopen"]
            res == dlopen(filename, 1, real, out)
        IN /\ REAL' = [REAL EXCEPT !["dlopen"] = real]
           /\ last' = [hook |-> "dlopen", filename |-> filename, flags |-> 1, res |-> res]
           /\ errno' = SetErrno(1, res)
           /\ UNCHANGED <<env, ACTIVE, NVIDIA_NODES, NVIDIA_BDFS, inits, first, dirp, pc, tcall>>

(***************************************************************************)
(* readdir and readdir64.  A directory stream is the listing the real      *)
(* iterator yields (under), how many of its entries have been consumed     *)
(* (pos), what dir_path resolves the stream to (path, None when dirfd or   *)
(* the /proc/self/fd link fails) and the entries handed to the caller so   *)
(* far (out, a history).                                                   *)
(***************************************************************************)
\* dir_path(dirp).unwrap_or_default()
dir_path_or_default(stream) == IF stream.path = None THEN "" ELSE stream.path.some

\* real(dirp): the next entry of the listing, or null at the end of the stream
RealReaddir(under, pos) ==
    IF pos < Len(under) THEN [ret |-> Some(under[pos + 1]), pos |-> pos + 1]
    ELSE [ret |-> None, pos |-> pos]

\* a loop that reports the end of the stream at the first hidden entry
ReaddirLoopStops(under, pos, dir) ==
    LET ent == RealReaddir(under, pos) IN
    IF ent.ret = None THEN [ret |-> None, pos |-> ent.pos, reads |-> 1]
    ELSE IF dir = "" THEN [ret |-> ent.ret, pos |-> ent.pos, reads |-> 1]
    ELSE IF is_hidden_entry(dir, ent.ret.some)
         THEN [ret |-> None, pos |-> ent.pos, reads |-> 1]
         ELSE [ret |-> ent.ret, pos |-> ent.pos, reads |-> 1]

\* the loop of readdir / readdir64: [ret, pos, reads] with reads the calls of real(dirp)
RECURSIVE ReaddirLoop(_, _, _)
ReaddirLoop(under, pos, dir) ==
    LET ent == RealReaddir(under, pos) IN
    IF ent.ret = None THEN [ret |-> None, pos |-> ent.pos, reads |-> 1]
    ELSE IF dir = "" THEN [ret |-> ent.ret, pos |-> ent.pos, reads |-> 1]
    ELSE IF is_hidden_entry(dir, ent.ret.some)
         THEN LET r == ReaddirLoop(under, ent.pos, dir) IN [r EXCEPT !.reads = @ + 1]
         ELSE [ret |-> ent.ret, pos |-> ent.pos, reads |-> 1]

readdir(stream) ==
    IF ~ACTIVE
    THEN LET ent == RealReaddir(stream.under, stream.pos) IN
         [ret |-> ent.ret, pos |-> ent.pos, reads |-> 1]
    ELSE ReaddirLoop(stream.under, stream.pos, dir_path_or_default(stream))

\* readdir64 is the same code over dirent64
readdir64(stream) == readdir(stream)

EntryNames == {"card0", "nvidia0", "pci-0000:01:00.0-card"}
ExampleListing == <<"card0", "card1", "renderD128", "nvidia0">>
\* the listings: directory entries are distinct names
Listings ==
    {ExampleListing} \cup
    { u \in UNION {[1..n -> EntryNames] : n \in 0..MaxEntries} :
        \A i, j \in 1..Len(u) : i # j => u[i] # u[j] }
DirPaths == {None, Some("/dev/dri")}

Opendir ==
    /\ Idle /\ dirp = NoDir
    /\ \E under \in Listings, path \in DirPaths :
        dirp' = [open |-> TRUE, under |-> under, path |-> path, pos |-> 0,
                 out |-> <<>>, eos |-> FALSE, active |-> ACTIVE]
    /\ UNCHANGED <<env, ACTIVE, NVIDIA_NODES, NVIDIA_BDFS, inits, first, REAL, errno, last, pc, tcall>>

ReaddirReturns(hook, r, real) ==
    /\ dirp' = [dirp EXCEPT !.pos = r.pos,
                            !.out = IF r.ret = None THEN @ ELSE Append(@, r.ret.some),
                            !.eos = (r.ret = None)]
    /\ last' = [hook |-> hook,
                res |-> [denied |-> FALSE, fwd |-> [i \in 1..r.reads |-> [fn |-> real.some]],
                         ret |-> r.ret, errno |-> None]]
    /\ REAL' = [REAL EXCEPT ![hook] = real]
    /\ UNCHANGED <<env, ACTIVE, NVIDIA_NODES, NVIDIA_BDFS, inits, first, errno, pc, tcall>>

Readdir ==
    /\ Idle /\ dirp # NoDir
    /\ \E sym \in SymAddrs("readdir") :
        ReaddirReturns("readdir", readdir(dirp), get_or_init(REAL["readdir"], 1, sym))

Readdir64 ==
    /\ Idle /\ dirp # NoDir
    /\ \E sym \in SymAddrs("readdir64") :
        ReaddirReturns("readdir64", readdir64(dirp), get_or_init(REAL["readdir64"], 1, sym))

Closedir ==
    /\ Idle /\ dirp # NoDir
    /\ dirp' = NoDir
    /\ UNCHANGED <<env, ACTIVE, NVIDIA_NODES, NVIDIA_BDFS, inits, first, REAL, errno, last, pc, tcall>>

(***************************************************************************)
(* Threads calling dlopen, readdir and readdir64 concurrently.  A call is  *)
(* followed through real_*(): resolve (about to call get_or_init), init    *)
(* (this thread runs the initializer), store (dlsym has returned), wait    *)
(* (parked until the running initializer completes), call (holds the       *)
(* pointer get_or_init returned and forwards through it).                  *)
(***************************************************************************)
Quiet == inits >= 1 /\ last = NoCall /\ dirp = NoDir

\* dlopen(filename, flags) up to real_dlopen(): a blocked name is denied at once
EnterDlopen(t) ==
    /\ Quiet /\ pc[t] = "idle"
    /\ \E filename \in {Some("libvulkan.so.1"), Some("libGLX_nvidia.so.0")} :
        IF DlopenResolves(filename)
        THEN /\ pc' = [pc EXCEPT ![t] = "resolve"]
             /\ tcall' = [tcall EXCEPT ![t] = [hook |-> "dlopen", sym |-> None, real |-> None,
                                               ran |-> FALSE, waited |-> FALSE]]
             /\ UNCHANGED errno
        ELSE /\ errno' = SetErrno(t, Denied(0))
             /\ UNCHANGED <<pc, tcall>>
    /\ UNCHANGED <<env, ACTIVE, NVIDIA_NODES, NVIDIA_BDFS, inits, first, REAL, dirp, last>>

\* readdir(dirp) / readdir64(dirp): let real = real_readdir() comes first
EnterReaddir(t) ==
    /\ Quiet /\ pc[t] = "idle"
    /\ \E h \in {"readdir", "readdir64"} :
        tcall' = [tcall EXCEPT ![t] = [hook |-> h, sym |-> None, real |-> None,
                                      ran |-> FALSE, waited |-> FALSE]]
    /\ pc' = [pc EXCEPT ![t] = "resolve"]
    /\ UNCHANGED <<env, ACTIVE, NVIDIA_NODES, NVIDIA_BDFS, inits, first, REAL, errno, dirp, last>>

\* get_or_init: a resolved cell is read, an empty one is claimed, a running one parks
GetOrInit(t) ==
    /\ pc[t] = "resolve"
    /\ LET h == tcall[t].hook IN
       IF IsResolved(REAL[h])
       THEN /\ pc' = [pc EXCEPT ![t] = "call"]
            /\ tcall' = [tcall EXCEPT ![t].real = REAL[h]]
            /\ UNCHANGED REAL
       ELSE IF REAL[h] = None
       THEN /\ REAL' = [REAL EXCEPT ![h] = OnceBegin(REAL[h], t)]
            /\ pc' = [pc EXCEPT ![t] = "init"]
            /\ tcall' = [tcall EXCEPT ![t].ran = TRUE]
       ELSE /\ pc' = [pc EXCEPT ![t] = "wait"]
            /\ tcall' = [tcall EXCEPT ![t].waited = TRUE]
            /\ UNCHANGED REAL
    /\ UNCHANGED <<env, ACTIVE, NVIDIA_NODES, NVIDIA_BDFS, inits, first, errno, dirp, last>>

\* the initializer: dlsym(RTLD_NEXT, name)
Dlsym(t) ==
    /\ pc[t] = "init"
    /\ \E sym \in SymAddrs(tcall[t].hook) : tcall' = [tcall EXCEPT ![t].sym = Some(sym)]
    /\ pc' = [pc EXCEPT ![t] = "store"]
    /\ UNCHANGED <<env, ACTIVE, NVIDIA_NODES, NVIDIA_BDFS, inits, first, REAL, errno, dirp, last>>

\* the value is stored and get_or_init returns a reference to the cell's value
Store(t) ==
    /\ pc[t] = "store"
    /\ LET h == tcall[t].hook IN
       /\ REAL' = [REAL EXCEPT ![h] = OnceComplete(REAL[h], tcall[t].sym.some)]
       /\ tcall' = [tcall EXCEPT ![t].real = REAL'[h]]
    /\ pc' = [pc EXCEPT ![t] = "call"]
    /\ UNCHANGED <<env, ACTIVE, NVIDIA_NODES, NVIDIA_BDFS, inits, first, errno, dirp, last>>

\* a parked thread resumes once the cell is resolved
Wake(t) ==
    /\ pc[t] = "wait"
    /\ IsResolved(REAL[tcall[t].hook])
    /\ tcall' = [tcall EXCEPT ![t].real = REAL[tcall[t].hook]]
    /\ pc' = [pc EXCEPT ![t] = "call"]
    /\ UNCHANGED <<env, ACTIVE, NVIDIA_NODES, NVIDIA_BDFS, inits, first, REAL, errno, dirp, last>>

\* the call is forwarded through the pointer held and the hook returns
Forward(t) ==
    /\ pc[t] = "call"
    /\ pc' = [pc EXCEPT ![t] = "idle"]
    /\ tcall' = [tcall EXCEPT ![t] = NoCall]
    /\ UNCHANGED <<env, ACTIVE, NVIDIA_NODES, NVIDIA_BDFS, inits, first, REAL, errno, dirp, last>>

(***************************************************************************)
(* Specifications.                                                         *)
(***************************************************************************)
Next ==
    \/ NhInit
    \/ Dlopen
    \/ Open
    \/ Open64
    \/ Openat
    \/ Open_2
    \/ Open64_2
    \/ Openat_2
    \/ Openat64_2
    \/ Openat2
    \/ Opendir
    \/ Readdir
    \/ Readdir64
    \/ Closedir
    \/ Return

\* the sequential program: the constructor, then hooked calls
Spec == InitFrom(HookEnvs) /\ [][Next]_vars

\* the calls the classification rules decide, one of each kind, over every device tree
NextRules ==
    \/ NhInit
    \/ Open
    \/ Opendir
    \/ Readdir
    \/ Closedir
    \/ Return

SpecRules == InitFrom(RuleEnvs) /\ [][NextRules]_vars

\* threads racing through the hooks that resolve a real implementation
NextRace ==
    \/ NhInit
    \/ \E t \in Threads : EnterDlopen(t)
    \/ \E t \in Threads : EnterReaddir(t)
    \/ \E t \in Threads : GetOrInit(t)
    \/ \E t \in Threads : Dlsym(t)
    \/ \E t \in Threads : Store(t)
    \/ \E t \in Threads : Wake(t)
    \/ \E t \in Threads : Forward(t)

SpecRace == InitFrom(RaceEnvs) /\ [][NextRace]_vars

\* the constructor alone, over the configurations of the activation policy
NextPolicy == NhInit

SpecPolicy == InitFrom(PolicyEnvs) /\ [][NextPolicy]_vars

(***************************************************************************)
(* Claims about the activation policy.                                     *)
(***************************************************************************)
\* the patterns of a list, from both of its sources: the non-empty trimmed tokens of
\* the environment value and the usable trimmed lines of the list file
EnvPatterns(name) ==
    IF getenv(name) = None THEN {}
    ELSE LET toks == Split(getenv(name).some, ":") IN
         {trim(toks[i]) : i \in 1..Len(toks)} \ {""}

FilePatterns(leaf) ==
    IF read_to_string(xdg_path(leaf)) = None THEN {}
    ELSE LET ls == Lines(read_to_string(xdg_path(leaf)).some) IN
         {trim(ls[i]) : i \in {j \in 1..Len(ls) : UsableLine(ls[j])}}

ListMatches(name, leaf) ==
    \E pat \in EnvPatterns(name) \cup FilePatterns(leaf) :
        glob_match(pat, env.exe.some, basename(env.exe.some))

AllowConfigured ==
    \/ (getenv("LIBNVIDIAHIDE_ALLOWLIST") # None /\ getenv("LIBNVIDIAHIDE_ALLOWLIST").some # "")
    \/ FilePatterns("allowlist") # {}

AllowMatches == ListMatches("LIBNVIDIAHIDE_ALLOWLIST", "allowlist")
DenyMatches == ListMatches("LIBNVIDIAHIDE_DENYLIST", "denylist")

\* C1: once nh_init has run with a readable process identity, ACTIVE equals
\* (no allowlist configured or an allow pattern matches) and no deny pattern matches,
\* the patterns of the environment value and of the list file taken together.
C1_ActivationPolicy ==
    (inits >= 1 /\ env.exe # None) =>
        (ACTIVE <=> ((~AllowConfigured \/ AllowMatches) /\ ~DenyMatches))

\* C1 witness: nh_init has run for a process that matches both an allow and a deny
\* pattern, and hiding is off (deny overrides allow)
C1_Witness ==
    /\ inits >= 1
    /\ env.exe # None
    /\ AllowMatches
    /\ DenyMatches
    /\ ~ACTIVE

(***************************************************************************)
(* Claims about the classification rules and the hooks.                    *)
(***************************************************************************)
OpenFamily == {"open", "open64", "openat", "openat2",
               "__open_2", "__open64_2", "__openat_2", "__openat64_2"}
ReaddirFamily == {"readdir", "readdir64"}

\* the inputs the predicates are evaluated on in every state
ProbePaths ==
    CallPaths \cup
    { "", "/dev/nvidiactl", "/dev/nvidia-uvm", "/dev/nvidia", "/dev/nvidi", "/x/dev/nvidia0",
      "/dev/dri/renderD129", "/dev/dri/by-path/pci-0000:00:02.0-card",
      "/sys/devices/pci0000:00/0000:00:01.0/0000:01:00.0/config",
      "/sys/bus/pci/devices/0000:01:00.0/config_rom",
      "/sys/bus/pci/devices/01:00.0/config",
      "/usr/share/vulkan/icd.d/nvidia_icd.json", "/opt/lib/libGLX_nvidia.so.0" }
ProbeLibs == LibNames \cup {"", "nvidia-drm_gbm.so", "/usr/lib/libnvidia-glcore.so"}
ProbeNames ==
    EntryNames \cup
    { "", "renderD128", "renderD129", "nvidiactl", "pci-01:00.0-render", "0000:01:00.0",
      "pci-0000:00:02.0-card", "00.0", "1:00.0" }
ProbeAddrs == {"0000:01:00.0", "0000:02:00.0", "0000:00:02.0", "01:00.0", "00:01:00.0"}

\* C2: whenever ACTIVE is false, should_block_open, should_block_dlopen and
\* is_hidden_entry are false for every input, and a hooked call that has just
\* returned was not denied: it forwarded one call, and readdir / readdir64 handed
\* over the very entry (or end of stream) the real iterator gave.
C2_InactiveForwardsAll ==
    ~ACTIVE =>
        /\ \A q \in ProbePaths : ~should_block_open(q)
        /\ \A f \in ProbeLibs : ~should_block_dlopen(f)
        /\ \A n \in ProbeNames : ~is_hidden_entry("/dev/dri", n)
        /\ last # NoCall =>
            /\ ~last.res.denied
            /\ Len(last.res.fwd) = 1
        /\ dirp # NoDir => dirp.out = SubSeq(dirp.under, 1, dirp.pos)

\* C2 witness: hiding is off and an open of /dev/nvidia0 went through to the system call
C2_Witness ==
    /\ ~ACTIVE
    /\ last # NoCall
    /\ last.hook = "open"
    /\ last.pathname = Some("/dev/nvidia0")
    /\ ~last.res.denied
    /\ last.res.fwd[1].fn = "SYS_openat"

\* C4: whenever ACTIVE is true, should_block_open is true for every path that starts
\* with /dev/nvidia, whatever discovery found (also when it found nothing or has not
\* run), and an open-family call on such a path is denied.
C4_DevNvidiaPrefixBlocked ==
    ACTIVE =>
        /\ \A q \in ProbePaths : StartsWith(q, "/dev/nvidia") => should_block_open(q)
        /\ (last # NoCall /\ last.hook \in OpenFamily /\ last.pathname # None
                /\ StartsWith(last.pathname.some, "/dev/nvidia")) => last.res.denied

\* C4 witness: discovery found nothing (the device-class directory is unreadable),
\* and openat of /dev/nvidia0 was denied
C4_Witness ==
    /\ ACTIVE
    /\ inits >= 1
    /\ env.drm = None
    /\ nvidia_nodes = <<>> /\ nvidia_bdfs = <<>>
    /\ last # NoCall
    /\ last.hook = "open"
    /\ last.pathname = Some("/dev/nvidia0")
    /\ last.res.denied

Sentinel(hook) == IF hook = "dlopen" THEN 0 ELSE -1

\* C5: a dlopen or open-family call that has just returned was either denied, with
\* errno = ENOENT, the failure value returned (null for dlopen, -1 for the open family)
\* and no call forwarded; or it forwarded exactly one call (the resolved real dlopen,
\* or the raw system call) and returned that call's value.
C5_DenyOrForwardOnce ==
    (last # NoCall /\ last.hook \in OpenFamily \cup {"dlopen"}) =>
        IF last.res.denied
        THEN /\ ACTIVE
             /\ errno[1] = ENOENT
             /\ last.res.ret = Sentinel(last.hook)
             /\ last.res.fwd = <<>>
        ELSE /\ Len(last.res.fwd) = 1
             /\ last.res.ret = last.res.fwd[1].result
             /\ last.hook = "dlopen" => last.res.fwd[1].fn = REAL["dlopen"].some
             /\ last.hook = "openat2" => last.res.fwd[1].fn = "SYS_openat2"
             /\ last.hook \in OpenFamily \ {"openat2"} => last.res.fwd[1].fn = "SYS_openat"

\* C5 witness: a dlopen was denied
C5_Witness ==
    /\ last # NoCall
    /\ last.hook = "dlopen"
    /\ last.res.denied
    /\ errno[1] = ENOENT
    /\ last.res.ret = 0

HasFlags(flags, f) == BitAnd(flags, f) = f

\* C6 (as claimed): a non-denied open, open64 or openat passes to the openat system
\* call the caller's mode when flags contain O_CREAT or O_TMPFILE and 0 otherwise,
\* with the path, the flags and the directory descriptor unchanged.
C6_ModeForwarded ==
    (last # NoCall /\ last.hook \in {"open", "open64", "openat"} /\ ~last.res.denied) =>
        LET sys == last.res.fwd[1] IN
        /\ sys.mode = IF HasFlags(last.flags, O_CREAT) \/ HasFlags(last.flags, O_TMPFILE)
                      THEN last.mode.some ELSE 0
        /\ sys.pathname = last.pathname
        /\ sys.flags = last.flags
        /\ sys.dirfd = IF last.hook = "openat" THEN last.dirfd ELSE AT_FDCWD

\* C7: once nh_init has run, ACTIVE, NVIDIA_NODES and NVIDIA_BDFS hold the values the
\* first run left, after a second run under the same environment and after any
\* hooked call.
C7_InitIdempotent ==
    inits >= 1 =>
        /\ first # None
        /\ ACTIVE = first.some.active
        /\ NVIDIA_NODES = first.some.nodes
        /\ NVIDIA_BDFS = first.some.bdfs

\* C7 witness: nh_init has run twice over a tree with NVIDIA nodes, and a hooked call
\* has returned since
C7_Witness ==
    /\ inits = 2
    /\ ACTIVE
    /\ Len(nvidia_nodes) > 0 /\ Len(nvidia_bdfs) > 0
    /\ last # NoCall

PciConfigPath(addr) == "/sys/bus/pci/devices/" \o addr \o "/config"

\* C8: whenever ACTIVE is true, a path that contains "/" + b + "/config" for a
\* discovered PciAddress b is blocked, and /sys/bus/pci/devices/<addr>/config is not
\* blocked for an address that was not discovered.
C8_PciConfigBlocked ==
    ACTIVE =>
        /\ \A q \in ProbePaths : \A i \in 1..Len(nvidia_bdfs) :
              Contains(q, "/" \o nvidia_bdfs[i] \o "/config") => should_block_open(q)
        /\ \A addr \in ProbeAddrs :
              should_block_open(PciConfigPath(addr)) <=> SeqContains(nvidia_bdfs, addr)

\* C8 witness: with 0000:01:00.0 the one discovered address, an open of its config
\* file was denied, and the config file of 0000:02:00.0 is not blocked
C8_Witness ==
    /\ ACTIVE
    /\ nvidia_bdfs = <<"0000:01:00.0">>
    /\ last # NoCall
    /\ last.hook = "open"
    /\ last.pathname = Some(PciConfigPath("0000:01:00.0"))
    /\ last.res.denied
    /\ ~should_block_open(PciConfigPath("0000:02:00.0"))

\* the address without its domain segment: the text after the first ':'
AfterFirstColon(b) == SubSeq(b, Find(b, ":").some + 2, Len(b))

\* C9: whenever ACTIVE is true, is_hidden_entry is true for every name that contains a
\* discovered PciAddress, or that address without its domain segment, as a substring.
C9_BdfNamesHidden ==
    ACTIVE =>
        \A i \in 1..Len(nvidia_bdfs) : \A n \in ProbeNames :
            (Contains(n, nvidia_bdfs[i]) \/ Contains(n, AfterFirstColon(nvidia_bdfs[i])))
                => is_hidden_entry("/dev/dri/by-path", n)

\* C9 witness: 0000:01:00.0 is discovered, a by-path name that holds only the short
\* form 01:00.0 is hidden, and readdir has skipped an entry that holds the address
C9_Witness ==
    /\ ACTIVE
    /\ nvidia_bdfs = <<"0000:01:00.0">>
    /\ ~Contains("pci-01:00.0-render", "0000:01:00.0")
    /\ is_hidden_entry("/dev/dri/by-path", "pci-01:00.0-render")
    /\ dirp # NoDir
    /\ dirp.path # None
    /\ dirp.pos >= 1
    /\ dirp.under[1] = "pci-0000:01:00.0-card"
    /\ dirp.out = <<"card0">>
    /\ last # NoCall /\ last.hook = "readdir"

\* the entries of a listing that is_hidden_entry does not hide, in their order
RECURSIVE Visible(_, _)
Visible(dir, under) ==
    IF under = <<>> THEN <<>>
    ELSE IF is_hidden_entry(dir, under[1]) THEN Visible(dir, Tail(under))
    ELSE <<under[1]>> \o Visible(dir, Tail(under))

\* what C3 says of a stream: the entries handed over so far are the visible ones among
\* the entries consumed, in their order; a call returns the end of the stream only with
\* the real iterator exhausted, and otherwise the entry the real iterator gave last
FilteredStream ==
    /\ dirp.out = Visible("/dev/dri", SubSeq(dirp.under, 1, dirp.pos))
    /\ dirp.eos => dirp.pos = Len(dirp.under)
    /\ (last # NoCall /\ last.hook \in ReaddirFamily) =>
          IF last.res.ret = None THEN dirp.eos
          ELSE ~dirp.eos /\ last.res.ret.some = dirp.under[dirp.pos]

\* C3 (as claimed): when active, for any directory stream, readdir and readdir64 hand
\* over exactly the entries that is_hidden_entry does not hide, in order, up to the
\* end of the stream.
C3_FilteredAnyStream ==
    (ACTIVE /\ dirp # NoDir) => FilteredStream

\* C3 (amended): the same, for a stream whose directory path dir_path resolves; with
\* an unresolved path (dir is empty) the hook returns every entry unfiltered.
C3_FilteredResolvedStream ==
    (ACTIVE /\ dirp # NoDir /\ dirp.path # None) => FilteredStream

\* C3 witness: nodes = {card0}; [card0, card1, renderD128, nvidia0] was read to the end
\* and yielded [card1, renderD128]
C3_Witness ==
    /\ ACTIVE
    /\ nvidia_nodes = <<"card0">>
    /\ dirp # NoDir
    /\ dirp.path # None
    /\ dirp.under = ExampleListing
    /\ dirp.eos
    /\ dirp.out = <<"card1", "renderD128">>
    /\ last # NoCall /\ last.hook = "readdir64"

(***************************************************************************)
(* Claim about the lazily resolved function pointers.                      *)
(***************************************************************************)
\* C10: under any interleaving, a thread that forwards holds the pointer the hook's
\* cell holds, the cell being resolved by then; and a resolved cell never changes.
C10_ResolvedOnce ==
    /\ [](\A t \in Threads : pc[t] = "call" =>
            /\ IsResolved(REAL[tcall[t].hook])
            /\ tcall[t].real = REAL[tcall[t].hook])
    /\ [][\A h \in Hooks : IsResolved(REAL[h]) => REAL'[h] = REAL[h]]_vars

\* C10 witness: two threads raced on the first invocation of a hook; one ran the
\* initializer, the other was parked, and both are about to forward
C10_Witness ==
    \E t1, t2 \in Threads :
        /\ t1 # t2
        /\ pc[t1] = "call" /\ pc[t2] = "call"
        /\ tcall[t1].hook = tcall[t2].hook
        /\ tcall[t1].ran /\ tcall[t2].waited
        /\ tcall[t1].real = tcall[t2].real

(***************************************************************************)
(* C11: what discovery records.                                            *)
(***************************************************************************)
\* the node-naming grammar: renderD or card followed by decimal digits only
NodeGrammar(name) ==
    \E p \in {"renderD", "card"} :
        /\ StartsWith(name, p)
        /\ \A i \in (Len(p) + 1)..Len(name) : IsAsciiDigit(CharAt(name, i))

DrmEntries == IF env.drm = None THEN {} ELSE {env.drm.some[i] : i \in 1..Len(env.drm.some)}

SeqToSet(v) == {v[i] : i \in 1..Len(v)}

Occurrences(v, x) == Cardinality({i \in 1..Len(v) : v[i] = x})

\* the recorded nodes are exactly the entries inside the grammar with the target vendor
NodesAreGrammarWithVendor ==
    SeqToSet(nvidia_nodes) =
        {e.name : e \in {d \in DrmEntries :
                            NodeGrammar(d.name) /\ sysfs_drm_node_vendor_is_nvidia(d)}}

\* each recorded address is the last link segment of a recorded node, has at least
\* 7 characters, contains ':' and is recorded once
BdfsWellFormed ==
    \A i \in 1..Len(nvidia_bdfs) :
        LET b == nvidia_bdfs[i] IN
        /\ \E e \in DrmEntries :
              /\ e.name \in SeqToSet(nvidia_nodes)
              /\ e.device # None
              /\ file_name(e.device.some) = Some(b)
        /\ Len(b) >= BDF_MIN_LEN
        /\ Contains(b, ":")
        /\ Occurrences(nvidia_bdfs, b) = 1

\* C11 (as claimed): once discovery has run, nodes holds exactly the entries whose
\* name is renderD<digits> or card<digits> and whose vendor attribute parses to
\* 0x10de, no name outside that grammar is recorded, and every recorded address is
\* the last link segment of a recorded node, at least 7 long, contains ':' and
\* appears once.
C11_NodesMatchGrammar ==
    NVIDIA_NODES # None =>
        /\ NodesAreGrammarWithVendor
        /\ \A n \in SeqToSet(nvidia_nodes) : NodeGrammar(n)
        /\ BdfsWellFormed

(***************************************************************************)
(* C12: should_block_open against the list of rules.                       *)
(***************************************************************************)
IcdManifest == "/usr/share/vulkan/icd.d/nvidia"
LayerManifest == "/usr/share/vulkan/implicit_layer.d/nvidia"
GbmBackend == "nvidia-drm_gbm.so"
GlxLibrary == "libGLX_nvidia.so"
VendorLibrary == "/usr/lib/libnvidia-"

RuleProbes ==
    ProbePaths \cup
    { "/home/u/libGLX_nvidia.so.bak", "libGLX_nvidia.so.0", "/usr/lib64/gbm/nvidia-drm_gbm.so",
      "nvidia-drm_gbm.so", "/usr/lib64/libnvidia-ml.so.1", "/opt/usr/lib/libnvidia-ml.so.1",
      "/usr/share/vulkan/implicit_layer.d/nvidia_layers.json",
      "/etc/vulkan/icd.d/nvidia_icd.json", "/usr/share/vulkan/icd.d/intel_icd.json",
      "/dev/dri/", "/dev/dri/renderDx", "/dev/dri/card1/", "/x/dev/dri/card1",
      "/dev/dri/by-path/pci-0000:07:00.0-render", "/dev/dri/by-path",
      "/sys/bus/pci/devices/0000:01:00.0/vendor" }

RuleDevPrefix(path) == StartsWith(path, "/dev/nvidia")

RuleDriNode(path) == \E n \in SeqToSet(nvidia_nodes) : path = "/dev/dri/" \o n

RuleByPath(path) ==
    /\ StartsWith(path, "/dev/dri/by-path/")
    /\ \E b \in SeqToSet(nvidia_bdfs) : Contains(path, b)

RulePciConfig(path) == \E b \in SeqToSet(nvidia_bdfs) : Contains(path, "/" \o b \o "/config")

\* the rules as listed: all five vendor userspace literals are prefixes of the path
ListedRulesAllPrefixes(path) ==
    \/ RuleDevPrefix(path)
    \/ RuleDriNode(path)
    \/ RuleByPath(path)
    \/ \E x \in {IcdManifest, LayerManifest, GbmBackend, GlxLibrary, VendorLibrary} :
          StartsWith(path, x)
    \/ RulePciConfig(path)

\* the rules with the GBM backend and the GLX library names looked for anywhere
ListedRulesNamesAnywhere(path) ==
    \/ RuleDevPrefix(path)
    \/ RuleDriNode(path)
    \/ RuleByPath(path)
    \/ \E x \in {IcdManifest, LayerManifest, VendorLibrary} : StartsWith(path, x)
    \/ \E x \in {GbmBackend, GlxLibrary} : Contains(path, x)
    \/ RulePciConfig(path)

\* C12 (as claimed): when ACTIVE, should_block_open(path) is true exactly when the
\* path starts with /dev/nvidia, equals /dev/dri/<discovered node>, starts with
\* /dev/dri/by-path/ and contains a discovered address, starts with one of the five
\* vendor userspace prefixes, or contains /<discovered address>/config; a path that
\* mentions a vendor library name elsewhere than at its start is not blocked.
\* Stated for the process after nh_init has run, where discovery has taken place.
C12_BlockedIffPrefixRules ==
    (ACTIVE /\ inits >= 1) =>
        \A q \in RuleProbes : should_block_open(q) <=> ListedRulesAllPrefixes(q)

\* C12 (amended): when ACTIVE, should_block_open(path) is true exactly when one of
\* the listed rules holds, where the GBM backend name nvidia-drm_gbm.so and the GLX
\* library name libGLX_nvidia.so block a path that contains them anywhere and the
\* two manifest prefixes and /usr/lib/libnvidia- block only at the start of the path.
C12_BlockedIffRules ==
    ACTIVE => \A q \in RuleProbes : should_block_open(q) <=> ListedRulesNamesAnywhere(q)

\* C12 witness: with nodes and addresses discovered, an open of a GLX vendor library
\* outside /usr/lib was denied, while the vendor library prefix in the middle of a
\* path blocks nothing
C12_Witness ==
    /\ ACTIVE
    /\ Len(nvidia_nodes) > 0
    /\ Len(nvidia_bdfs) > 0
    /\ last # NoCall
    /\ last.hook = "open"
    /\ last.pathname = Some("/opt/lib/libGLX_nvidia.so.0")
    /\ last.res.denied
    /\ ~should_block_open("/opt/usr/lib/libnvidia-ml.so.1")

====
